---- MODULE Spec2Model ----
(***************************************************************************)
(* State-machine model of pymodaq_plugins_vernier: the GoIO wrappers       *)
(* (goio_wrapper_server32.py, goio_wrapper.py), the 64-bit forwarding      *)
(* client (goio_wrapper_client64.py) and the vendor library they drive.    *)
(*                                                                         *)
(* The vendor library is the environment: its sessions, its measurement    *)
(* buffer and its return codes are state the wrappers only reach through   *)
(* self.lib.<entry point>(...) calls.  Every wrapper method is one action  *)
(* (read_raw is two: the count query and the read, because the device      *)
(* keeps producing between the two vendor calls).                          *)
(***************************************************************************)
EXTENDS Integers, Sequences, FiniteSets, TLC

(***************************************************************************)
(* Bounds of the model.                                                    *)
(***************************************************************************)
MaxHandles == 1
MaxSamples == 3
MaxThreads == 2

Handles == 1..MaxHandles
HandleArgs == 0..MaxHandles

(***************************************************************************)
(* Enums.  A table is the sequence of <<name, code>> pairs in definition   *)
(* order, as the class body lists them.                                    *)
(***************************************************************************)
VendorID32 == << <<"Vernier", 2295>> >>

ProductID32 ==
  << <<"Default", 1>>, <<"GoTemp", 2>>, <<"GoLink", 3>>, <<"GoMotion", 4>>,
     <<"LabQuest", 5>> >>

SensorCommand32 ==
  << <<"NONE", 0>>, <<"GET_STATUS", 16>>, <<"START_MEASUREMENTS", 24>>,
     <<"STOP_MEASUREMENTS", 25>>, <<"INIT", 26>>,
     <<"SET_MEASUREMENT_PERIOD", 27>>, <<"GET_MEASUREMENT_PERIOD", 28>>,
     <<"SET_LED_STATE", 29>>, <<"GET_LED_STATE", 30>>,
     <<"GET_SERIAL_NUMBER", 32>>, <<"GET_SENSOR_ID", 40>>,
     <<"SET_ANALOG_INPUT_CHANNEL", 41>>, <<"GET_ANALOG_INPUT_CHANNEL", 42>> >>

SensorStatus32 ==
  << <<"SUCCESS", 0>>, <<"NOT_READY_FOR_NEW_CMD", 48>>,
     <<"CMD_NOT_SUPPORTED", 49>>, <<"INTERNAL_ERROR1", 50>>,
     <<"INTERNAL_ERROR2", 51>>,
     <<"ERROR_CANNOT_CHANGE_PERIOD_WHILE_COLLECTING", 52>>,
     <<"ERROR_CANNOT_READ_NV_MEM_BLK_WHILE_COLLECTING_FAST", 53>>,
     <<"ERROR_INVALID_PARAMETER", 54>>,
     <<"ERROR_CANNOT_WRITE_FLASH_WHILE_COLLECTING", 55>>,
     <<"ERROR_CANNOT_WRITE_FLASH_WHILE_HOST_FIFO_BUSY", 56>>,
     <<"ERROR_OP_BLOCKED_WHILE_COLLECTING", 57>>,
     <<"ERROR_CALCULATOR_CANNOT_MEASURE_WITH_NO_BATTERIES", 58>>,
     <<"ERROR_SLAVE_POWERUP_INIT", 64>>,
     <<"ERROR_SLAVE_POWERRESTORE_INIT", 65>>,
     <<"ERROR_COMMUNICATION", 240>> >>

LEDColor32 ==
  << <<"BLACK", 192>>, <<"RED", 64>>, <<"GREEN", 128>>, <<"RED_GREEN", 0>> >>

\* LEDBrightness with OrangeLedBrightness given BRIGHTNESS_MAX's value.
LEDBrightness32_dup ==
  << <<"BRIGHTNESS_MIN", 0>>, <<"BRIGHTNESS_MAX", 16>>,
     <<"OrangeLedBrightness", 16>> >>

LEDBrightness32 ==
  << <<"BRIGHTNESS_MIN", 0>>, <<"BRIGHTNESS_MAX", 16>>,
     <<"OrangeLedBrightness", 4>> >>

ProbeType32 ==
  << <<"kProbeTypeNoProbe", 0>>, <<"kProbeTypeAnalog5V", 2>>,
     <<"kProbeTypeAnalog10V", 3>>, <<"kProbeTypeHeatPulser", 4>>,
     <<"kProbeTypeAnalogOut", 5>>, <<"kProbeTypeMD", 6>>,
     <<"kProbeTypePhotoGate", 7>>, <<"kProbeTypeDigitalCount", 10>>,
     <<"kProbeTypeRotary", 11>>, <<"kProbeTypeDigitalOut", 12>>,
     <<"kProbeTypeLabquestAudio", 13>>, <<"kNumProbeTypes", 14>> >>

\* goio_wrapper.py defines its own copies of five of the enums.
VendorIDW == << <<"Vernier", 2295>> >>

ProductIDW ==
  << <<"Default", 1>>, <<"GoTemp", 2>>, <<"GoLink", 3>>, <<"GoMotion", 4>>,
     <<"LabQuest", 5>> >>

SensorCommandW ==
  << <<"GET_STATUS", 16>>, <<"START_MEASUREMENTS", 24>>,
     <<"STOP_MEASUREMENTS", 25>>, <<"INIT", 26>>,
     <<"SET_MEASUREMENT_PERIOD", 27>>, <<"GET_MEASUREMENT_PERIOD", 28>>,
     <<"SET_LED_STATE", 29>>, <<"GET_LED_STATE", 30>>,
     <<"GET_SERIAL_NUMBER", 32>>, <<"GET_SENSOR_ID", 40>>,
     <<"SET_ANALOG_INPUT_CHANNEL", 41>>, <<"GET_ANALOG_INPUT_CHANNEL", 42>> >>

LEDColorW ==
  << <<"BLACK", 192>>, <<"RED", 64>>, <<"GREEN", 128>>, <<"RED_GREEN", 0>> >>

LEDBrightnessW == << <<"BRIGHTNESS_MIN", 0>>, <<"BRIGHTNESS_MAX", 16>> >>

EnumNames32 ==
  {"VendorID", "ProductID", "SensorCommand", "SensorStatus", "LEDColor",
   "LEDBrightness", "ProbeType"}

EnumNamesW == {"VendorID", "ProductID", "SensorCommand", "LEDColor", "LEDBrightness"}

\* The class a name denotes in each of the two modules.
EnumTable(file, enum) ==
  IF file = "server32"
  THEN CASE enum = "VendorID" -> VendorID32
         [] enum = "ProductID" -> ProductID32
         [] enum = "SensorCommand" -> SensorCommand32
         [] enum = "SensorStatus" -> SensorStatus32
         [] enum = "LEDColor" -> LEDColor32
         [] enum = "LEDBrightness" -> LEDBrightness32
         [] enum = "ProbeType" -> ProbeType32
         [] OTHER -> << >>
  ELSE CASE enum = "VendorID" -> VendorIDW
         [] enum = "ProductID" -> ProductIDW
         [] enum = "SensorCommand" -> SensorCommandW
         [] enum = "LEDColor" -> LEDColorW
         [] enum = "LEDBrightness" -> LEDBrightnessW
         [] OTHER -> << >>

\* BaseEnum.names(): the keys of __members__, in definition order.
names(E) == [i \in 1..Len(E) |-> E[i][1]]

NameSet(E) == {E[i][1] : i \in 1..Len(E)}

\* E[name].value; -1 stands for the KeyError of a name E does not define.
ValueOf(E, name) ==
  IF name \in NameSet(E)
  THEN E[CHOOSE i \in 1..Len(E) : E[i][1] = name][2]
  ELSE -1

\* E(value): Python's Enum maps a value to the first member defined with it
\* (a later member with the same value is an alias of the first).
\* "ValueError" when no member has the value.
ByValue(E, v) ==
  IF \E i \in 1..Len(E) : E[i][2] = v
  THEN E[CHOOSE i \in 1..Len(E) :
           /\ E[i][2] = v
           /\ \A j \in 1..Len(E) : E[j][2] = v => i <= j][1]
  ELSE "ValueError"

(***************************************************************************)
(* enum_checker.  An item is a member of some enum class, a string, or     *)
(* anything else (an int, None).                                           *)
(***************************************************************************)
Member(enum, name) == [k |-> "member", enum |-> enum, s |-> name]
Str(s) == [k |-> "str", enum |-> "", s |-> s]
OtherItem == [k |-> "other", enum |-> "", s |-> ""]

\* str.lower() on the strings the model uses; a string with no upper-case
\* letter is its own image.
LowerOf ==
  [s \in {"Default", "GoTemp", "GoLink", "GoMotion", "LabQuest", "GOLINK",
          "NONE", "GET_STATUS", "START_MEASUREMENTS", "STOP_MEASUREMENTS",
          "INIT", "SET_MEASUREMENT_PERIOD", "GET_MEASUREMENT_PERIOD",
          "SET_LED_STATE", "GET_LED_STATE", "GET_SERIAL_NUMBER",
          "GET_SENSOR_ID", "SET_ANALOG_INPUT_CHANNEL",
          "GET_ANALOG_INPUT_CHANNEL", "BLACK", "RED", "GREEN", "RED_GREEN",
          "Red", "BRIGHTNESS_MIN", "BRIGHTNESS_MAX", "OrangeLedBrightness",
          "Vernier"} |->
     CASE s = "Default" -> "default"
       [] s = "GoTemp" -> "gotemp"
       [] s = "GoLink" -> "golink"
       [] s = "GOLINK" -> "golink"
       [] s = "GoMotion" -> "gomotion"
       [] s = "LabQuest" -> "labquest"
       [] s = "NONE" -> "none"
       [] s = "GET_STATUS" -> "get_status"
       [] s = "START_MEASUREMENTS" -> "start_measurements"
       [] s = "STOP_MEASUREMENTS" -> "stop_measurements"
       [] s = "INIT" -> "init"
       [] s = "SET_MEASUREMENT_PERIOD" -> "set_measurement_period"
       [] s = "GET_MEASUREMENT_PERIOD" -> "get_measurement_period"
       [] s = "SET_LED_STATE" -> "set_led_state"
       [] s = "GET_LED_STATE" -> "get_led_state"
       [] s = "GET_SERIAL_NUMBER" -> "get_serial_number"
       [] s = "GET_SENSOR_ID" -> "get_sensor_id"
       [] s = "SET_ANALOG_INPUT_CHANNEL" -> "set_analog_input_channel"
       [] s = "GET_ANALOG_INPUT_CHANNEL" -> "get_analog_input_channel"
       [] s = "BLACK" -> "black"
       [] s = "RED" -> "red"
       [] s = "Red" -> "red"
       [] s = "GREEN" -> "green"
       [] s = "RED_GREEN" -> "red_green"
       [] s = "BRIGHTNESS_MIN" -> "brightness_min"
       [] s = "BRIGHTNESS_MAX" -> "brightness_max"
       [] s = "OrangeLedBrightness" -> "orangeledbrightness"
       [] s = "Vernier" -> "vernier"]

Lower(s) == IF s \in DOMAIN LowerOf THEN LowerOf[s] ELSE s

\* enum_checker that compares the names as written, case included.
enum_checker_exact(enum, E, item) ==
  IF item.k = "member" /\ item.enum = enum
  THEN [ok |-> TRUE, name |-> item.s]
  ELSE IF item.k = "str" /\ item.s \in NameSet(E)
  THEN [ok |-> TRUE, name |-> item.s]
  ELSE [ok |-> FALSE, name |-> ""]

\* enum_checker(enum, item): [ok, name]; ok = FALSE is the ValueError.
\* E is the table of the class named enum.
enum_checker(enum, E, item) ==
  IF item.k = "member" /\ item.enum = enum
  THEN [ok |-> TRUE, name |-> item.s]
  ELSE IF item.k # "str"
  THEN [ok |-> FALSE, name |-> ""]
  ELSE IF \E i \in 1..Len(E) : Lower(item.s) = Lower(names(E)[i])
  THEN [ok |-> TRUE,
        name |-> names(E)[CHOOSE i \in 1..Len(E) :
                   /\ Lower(item.s) = Lower(names(E)[i])
                   /\ \A j \in 1..Len(E) :
                        Lower(item.s) = Lower(names(E)[j]) => i <= j]]
  ELSE [ok |-> FALSE, name |-> ""]

(***************************************************************************)
(* ctypes structures: every field is a c_uint8, one byte.                  *)
(***************************************************************************)
DefaultResponse == <<"status">>
LEDParam == <<"color", "brightness">>

\* ctypes.sizeof of a structure instance; buffers are named by their class.
sizeof(buf) ==
  CASE buf = "DefaultResponse" -> Len(DefaultResponse)
    [] buf = "LEDParam" -> Len(LEDParam)

\* ctypes.sizeof of a pointer object.  GoIO_DLL.dll is a 32-bit library, so
\* the process that loads it with ctypes.WinDLL has 4-byte pointers.
PointerSize == 4

(***************************************************************************)
(* The vendor library (GoIO_DLL) and the devices behind it.                *)
(***************************************************************************)
DeviceOrder == <<"GoLink_A">>
DeviceNames == {DeviceOrder[i] : i \in 1..Len(DeviceOrder)}
DeviceArgs == DeviceNames \cup {"nodev"}

\* The product id each device enumerates under.
DevProduct(d) == ValueOf(ProductID32, "GoLink")

SeqSet(q) == {q[i] : i \in 1..Len(q)}

ClosedSess ==
  [open |-> FALSE, dev |-> "", measuring |-> FALSE, queue |-> << >>,
   produced |-> 0]

V_Valid(s, h) == h \in Handles /\ s[h].open

\* GoIO_Sensor_Open: the handles the call may return; 0 (NULL) is failure.
V_OpenResults(lib, conn, s, dev, vendor, product) ==
  IF /\ lib
     /\ dev \in conn
     /\ vendor = ValueOf(VendorID32, "Vernier")
     /\ DevProduct(dev) = product
     /\ \A h \in Handles : ~(s[h].open /\ s[h].dev = dev)
  THEN {h \in Handles : ~s[h].open} \cup {0}
  ELSE {0}

V_Open(s, h, dev) ==
  IF h = 0 THEN s
  ELSE [s EXCEPT ![h] = [open |-> TRUE, dev |-> dev, measuring |-> FALSE,
                         queue |-> << >>, produced |-> 0]]

\* GoIO_UpdateListOfAvailableDevices(vendor, product) rebuilds the vendor's
\* list and returns its length; GoIO_GetNthAvailableDeviceName reads it.
V_DeviceList(conn, vendor, product) ==
  SelectSeq(DeviceOrder,
            LAMBDA d : /\ d \in conn
                       /\ vendor = ValueOf(VendorID32, "Vernier")
                       /\ DevProduct(d) = product)

\* GoIO_Sensor_Close: 0 iff the handle is an open session.
V_CloseRes(s, h) == IF V_Valid(s, h) THEN 0 ELSE -1
V_Close(s, h) == IF V_Valid(s, h) THEN [s EXCEPT ![h] = ClosedSess] ELSE s

\* GoIO_Sensor_ClearIO: empties the measurement buffer of an open session.
V_ClearRes(s, h) == IF V_Valid(s, h) THEN 0 ELSE -1
V_Clear(s, h) == IF V_Valid(s, h) THEN [s EXCEPT ![h].queue = << >>] ELSE s

\* GoIO_Sensor_SendCmdAndGetResponse: the codes the exchange may end with
\* (an open session can still time out or be refused by the device).
V_CmdResults(s, h) == IF V_Valid(s, h) THEN {0, -1} ELSE {-1}

V_Cmd(s, h, cmd, res) ==
  IF ~V_Valid(s, h) \/ res # 0 THEN s
  ELSE IF cmd = ValueOf(SensorCommand32, "START_MEASUREMENTS")
  THEN [s EXCEPT ![h].measuring = TRUE]
  ELSE IF cmd = ValueOf(SensorCommand32, "STOP_MEASUREMENTS")
  THEN [s EXCEPT ![h].measuring = FALSE]
  ELSE s

\* GoIO_Sensor_GetNumMeasurementsAvailable.
V_NumAvailable(s, h) == IF V_Valid(s, h) THEN Len(s[h].queue) ELSE 0

Min(a, b) == IF a <= b THEN a ELSE b

\* GoIO_Sensor_ReadRawMeasurements(h, buf, maxCount): copies the oldest
\* min(maxCount, stored) measurements into buf, removes them from the
\* buffer and returns how many it copied.
V_ReadCount(s, h, maxCount) ==
  IF V_Valid(s, h) THEN Min(maxCount, Len(s[h].queue)) ELSE 0

V_Read(s, h, maxCount) ==
  IF V_Valid(s, h)
  THEN [s EXCEPT ![h].queue =
          SubSeq(s[h].queue, V_ReadCount(s, h, maxCount) + 1, Len(s[h].queue))]
  ELSE s

\* GoIO_Sensor_GetLatestRawMeasurement: the most recent measurement (0 when
\* there is none), and the buffer is emptied.
V_LatestValue(s, h) ==
  IF V_Valid(s, h) /\ Len(s[h].queue) > 0
  THEN s[h].queue[Len(s[h].queue)]
  ELSE 0

V_Latest(s, h) == IF V_Valid(s, h) THEN [s EXCEPT ![h].queue = << >>] ELSE s

(***************************************************************************)
(* State.                                                                  *)
(*   libOpen    GoIO_Init has succeeded and GoIO_Uninit has not            *)
(*   connected  the devices the vendor can enumerate right now             *)
(*   sess       the vendor's session behind each handle                    *)
(*   hist       per handle, what read_raw has returned since the open and  *)
(*              which measurements left the buffer in another way          *)
(*   rr         read_raw between its count query and its read              *)
(*   last       the most recent call: what the caller passed, the request  *)
(*              relayed, the vendor calls issued, and how it ended         *)
(*   gd         get_devices between two of its per-index enumerations      *)
(*   pl         the viewer plugin DAQ_0DViewer_GoIO and its controller     *)
(***************************************************************************)
VARIABLES libOpen, connected, sess, hist, rr, last, gd, pl

vars == <<libOpen, connected, sess, hist, rr, last, gd, pl>>

\* SensorInfo(handle, name, vendor, product); vendor and product by name.
SensorInfo(handle, name, vendor, product) ==
  [handle |-> handle, name |-> name, vendor |-> vendor, product |-> product]

NoInfo == SensorInfo(-1, "", "", "")

\* One vendor entry-point call as the DLL sees it.
VC(fn, h, cmd, pbuf, plen, rbuf, rlen, tmo, res) ==
  [fn |-> fn, h |-> h, cmd |-> cmd, pbuf |-> pbuf, plen |-> plen,
   rbuf |-> rbuf, rlen |-> rlen, tmo |-> tmo, res |-> res]

VC0(fn, h, res) == VC(fn, h, -1, "NULL", 0, "NULL", 0, 0, res)

\* The record of a call.  kind: "raise" or "return"; shape of a return:
\* "none" (None), "code" (a vendor status code), "data" (a value).
\* live: the handle named an open session when the call began; mark: how
\* many measurements that session had produced by then; avail (open_sensor):
\* the device was enumerable under the product when the call began.
Call0 ==
  [op |-> "none", h |-> 0, live |-> FALSE, mark |-> 0, avail |-> FALSE,
   kind |-> "none", shape |-> "none",
   exc |-> "", cmd |-> "", code |-> 0, data |-> << >>, info |-> NoInfo,
   text |-> "", param |-> "None", response |-> "None", retbuf |-> "None",
   vcalls |-> << >>, qread |-> << >>,
   method |-> "", args |-> << >>, reqName |-> "", reqArgs |-> << >>,
   file |-> "", enum |-> "", name |-> "", back |-> "", other |-> -1]

Call(op, s, h) ==
  [Call0 EXCEPT !.op = op, !.h = h, !.live = V_Valid(s, h),
                !.mark = IF V_Valid(s, h) THEN s[h].produced ELSE 0]

Raise(c, exc) == [c EXCEPT !.kind = "raise", !.exc = exc]
ReturnNone(c) == [c EXCEPT !.kind = "return", !.shape = "none"]
ReturnCode(c, res) == [c EXCEPT !.kind = "return", !.shape = "code", !.code = res]
ReturnData(c, d) == [c EXCEPT !.kind = "return", !.shape = "data", !.data = d]

Out(l, s) == [last |-> l, sess |-> s]

NoRR == [active |-> FALSE, h |-> 0, max_count |-> 0]
NoGD == [active |-> FALSE, product |-> OtherItem, n |-> 0, ind |-> 0,
         devices |-> << >>]
NoHist == [got |-> << >>, dropped |-> {}, info |-> NoInfo]

\* DAQ_0DViewer_GoIO.  A host thread is idle or inside one callback: cb is
\* the callback, script the controller calls it still has to make, wait
\* whether it is blocked in one, calls the controller calls it has issued,
\* emitted the exports it has sent through dte_signal.  failed, nth and good
\* are history: a controller call of the callback failed; the number of
\* grab_data calls since the last stop() (capped at 2, 0 without a stop);
\* a grab_data had returned since the last stop() when this one began.
Idle ==
  [cb |-> "none", script |-> << >>, wait |-> FALSE, calls |-> << >>,
   emitted |-> << >>, failed |-> FALSE, nth |-> 0, good |-> FALSE,
   device |-> ""]

\* ini_attributes: controller None, _running True.  phase: "new" before a
\* successful ini_detector, "ready" after it, "closed" after close().
\* th: the host's threads; wire: the threads whose request waits at the
\* server; exec: the threads whose request the server is executing.
\* since: controller.start() was issued after the last controller.stop();
\* grabs: -1 before the first stop(), then the grab_data calls since the
\* last one (capped at 2).  log: the outcome of the callback that ended
\* last, as the host sees it, with _running and the sensor's measuring
\* state at that moment.
NoPlugin ==
  [phase |-> "new", running |-> TRUE, handle |-> 0,
   th |-> [t \in 1..MaxThreads |-> Idle], wire |-> << >>, exec |-> {},
   since |-> FALSE, grabs |-> -1, good |-> FALSE,
   log |-> [cb |-> "none", kind |-> "none", initialized |-> FALSE,
            failed |-> FALSE, calls |-> << >>, emitted |-> << >>,
            running |-> TRUE, measuring |-> FALSE, nth |-> 0, good |-> FALSE]]

Init ==
  /\ libOpen = FALSE
  /\ connected = {}
  /\ sess = [h \in Handles |-> ClosedSess]
  /\ hist = [h \in Handles |-> NoHist]
  /\ rr = NoRR
  /\ last = Call0
  /\ gd = NoGD
  /\ pl = NoPlugin

(***************************************************************************)
(* The environment: devices are plugged and unplugged, and a measuring     *)
(* device appends a measurement to its session's buffer.                   *)
(***************************************************************************)
Plug ==
  \E d \in DeviceNames \ connected :
    /\ connected' = connected \cup {d}
    /\ UNCHANGED <<libOpen, sess, hist, rr, last, gd, pl>>

Unplug ==
  \E d \in connected :
    /\ connected' = connected \ {d}
    /\ UNCHANGED <<libOpen, sess, hist, rr, last, gd, pl>>

\* Measurement number n of a session carries the raw value n.
Produce ==
  \E h \in Handles :
    /\ sess[h].open /\ sess[h].measuring
    /\ sess[h].dev \in connected
    /\ sess[h].produced < MaxSamples
    /\ sess' = [sess EXCEPT ![h].produced = @ + 1,
                            ![h].queue = Append(@, sess[h].produced + 1)]
    /\ UNCHANGED <<libOpen, connected, hist, rr, last, gd, pl>>

(***************************************************************************)
(* GoIOWrapper64: every method relays through request32(name, *args).      *)
(* Request64(method, args) is the request the method of that name builds   *)
(* from the caller's positional arguments.                                 *)
(***************************************************************************)
Request64(method, args) ==
  IF method = "raw_to_voltage"
  THEN [name |-> "raw_to_voltage", args |-> <<args[1]>>]
  ELSE [name |-> method, args |-> args]

\* The positional parameters a GoIOWrapper32 method requires (self aside).
Required32(name) ==
  CASE name \in {"open_library", "close_library", "get_version"} -> 0
    [] name \in {"get_connected_products", "get_device_by_index", "get_devices",
                 "close_sensor", "clear_sensor", "get_sensor_info",
                 "get_status", "get_response_status", "get_led_status",
                 "set_led", "start", "stop", "get_n_available_measurements",
                 "read_raw", "read_raw_latest", "get_probe_type"} -> 1
    [] name \in {"open_sensor", "send_command_get_response", "raw_to_voltage",
                 "volt_to_calibrated", "raw_to_calibrated"} -> 2

\* Server32 dispatches the request to the method of that name; a call that
\* lacks a required argument raises TypeError before the method body runs.
Dispatchable(rq) == Len(rq.args) >= Required32(rq.name)

\* The call record completed with the relay: what the caller passed to the
\* GoIOWrapper64 method and what was sent to the 32-bit server.
Relayed(l, method, args) ==
  LET rq == Request64(method, args)
  IN [l EXCEPT !.method = method, !.args = args,
               !.reqName = rq.name, !.reqArgs = rq.args]

\* How a call ends at the caller: the request, the result, the sessions.
\* hist follows the buffers of the open sessions: a session that opens
\* starts a new history, a session that closes leaves none, and
\* a measurement that left a buffer other than in read_raw's result is
\* recorded as dropped.
HistAfter(s, s2, readH, data) ==
  [h \in Handles |->
     IF ~s[h].open \/ ~s2[h].open THEN NoHist
     ELSE [info |-> hist[h].info,
           got |-> IF h = readH THEN hist[h].got \o data ELSE hist[h].got,
           dropped |-> hist[h].dropped \cup
                       ((SeqSet(s[h].queue) \ SeqSet(s2[h].queue))
                          \ (IF h = readH THEN SeqSet(data) ELSE {}))]]

\* The SensorInfo an open_sensor call handed to its caller, kept with the
\* history of the session it opened.
Opened(hi, l) ==
  IF /\ l.op \in {"open_sensor", "W.open_sensor"} /\ l.kind = "return"
     /\ l.info.handle \in Handles
  THEN [hi EXCEPT ![l.info.handle].info = l.info]
  ELSE hi

Commit(r, method, args) ==
  \E o \in {r} :
    /\ last' = Relayed(o.last, method, args)
    /\ sess' = o.sess
    /\ hist' = Opened(HistAfter(sess, o.sess, 0, << >>), o.last)
    /\ UNCHANGED <<connected, rr, gd, pl>>

TypeErrorOut(rq, s) ==
  Out(Raise(Call(rq.name, s, IF Len(rq.args) > 0 THEN rq.args[1] ELSE 0),
            "TypeError"), s)

WithV(c, vcs) == [c EXCEPT !.vcalls = vcs]
WithText(c, t) == [c EXCEPT !.text = t]

(***************************************************************************)
(* GoIOWrapper32: library.                                                 *)
(***************************************************************************)
\* GoIO_Init may fail.
V_InitResults == {0, -1}

open_library32(s, res) ==
  LET c == WithV(Call("open_library", s, 0), <<VC0("GoIO_Init", 0, res)>>)
  IN IF res # 0
     THEN Out(Raise(WithText(c, "Library opening failed"), "GoIOError"), s)
     ELSE Out(ReturnNone(c), s)

open_library ==
  /\ ~rr.active
  /\ \E res \in V_InitResults :
       /\ Commit(open_library32(sess, res), "open_library", << >>)
       /\ libOpen' = (libOpen \/ res = 0)

\* GoIO_Uninit succeeds iff the library is initialised; it ends every session.
V_UninitRes(lib) == IF lib THEN 0 ELSE -1

close_library32(s, res) ==
  LET c == WithV(Call("close_library", s, 0), <<VC0("GoIO_Uninit", 0, res)>>)
  IN IF res # 0
     THEN Out(Raise(WithText(c, "Library closing failed"), "GoIOError"), s)
     ELSE Out(ReturnNone(c), [h \in Handles |-> ClosedSess])

close_library ==
  /\ ~rr.active
  /\ Commit(close_library32(sess, V_UninitRes(libOpen)), "close_library", << >>)
  /\ libOpen' = FALSE

\* GoIO_GetDLLVersion(minor, patch): the code and the two numbers it writes.
V_VersionResults == {0, -1}
V_Version == <<2, 53>>

\* major is never passed to the vendor and stays 0.
get_version32(s, res) ==
  LET c == WithV(Call("get_version", s, 0), <<VC0("GoIO_GetDLLVersion", 0, res)>>)
  IN IF res # 0
     THEN Out(Raise(WithText(c, "Incorrect version query"), "GoIOError"), s)
     ELSE Out(ReturnData(c, <<0, V_Version[1], V_Version[2]>>), s)

get_version ==
  /\ ~rr.active
  /\ \E res \in V_VersionResults :
       Commit(get_version32(sess, res), "get_version", << >>)
  /\ UNCHANGED libOpen

(***************************************************************************)
(* GoIOWrapper32: sessions.                                                *)
(***************************************************************************)
ProductItems ==
  {Member("ProductID", "GoLink"), Member("ProductID", "GoTemp"),
   Str("golink"), Str("bogus")}

\* open_sensor that hands back the product as the caller wrote it.
open_sensor32_asgiven(s, device_id, product, handle) ==
  LET chk == enum_checker("ProductID", ProductID32, product)
      c == Call("open_sensor", s, handle)
  IN IF ~chk.ok THEN Out(Raise(c, "ValueError"), s)
     ELSE Out([ReturnData(
                 WithV(c, <<VC0("GoIO_Sensor_Open", handle, handle)>>), << >>)
               EXCEPT !.info = SensorInfo(handle, device_id, "Vernier", product.s)],
              V_Open(s, handle, device_id))

open_sensor32(s, device_id, product, handle) ==
  LET chk == enum_checker("ProductID", ProductID32, product)
      c == Call("open_sensor", s, handle)
  IN IF ~chk.ok THEN Out(Raise(c, "ValueError"), s)
     ELSE Out([ReturnData(
                 WithV(c, <<VC0("GoIO_Sensor_Open", handle, handle)>>), << >>)
               EXCEPT !.info = SensorInfo(handle, device_id, "Vernier", chk.name)],
              V_Open(s, handle, device_id))

\* The handle GoIO_Sensor_Open returns for the product the check let through.
OpenChoices(lib, conn, s, device_id, product) ==
  LET chk == enum_checker("ProductID", ProductID32, product)
  IN IF chk.ok
     THEN V_OpenResults(lib, conn, s, device_id,
                        ValueOf(VendorID32, "Vernier"),
                        ValueOf(ProductID32, chk.name))
     ELSE {0}

\* device_id is the name of a device the vendor enumerates for the product.
Enumerable(conn, device_id, product) ==
  LET chk == enum_checker("ProductID", ProductID32, product)
  IN /\ chk.ok
     /\ device_id \in SeqSet(V_DeviceList(conn, ValueOf(VendorID32, "Vernier"),
                                          ValueOf(ProductID32, chk.name)))

Noting(r, avail) == Out([r.last EXCEPT !.avail = avail], r.sess)

open_sensor ==
  /\ ~rr.active
  /\ \E device_id \in DeviceArgs, product \in ProductItems :
       LET rq == Request64("open_sensor", <<device_id, product>>)
       IN \E handle \in OpenChoices(libOpen, connected, sess, rq.args[1], rq.args[2]) :
            Commit(Noting(open_sensor32(sess, rq.args[1], rq.args[2], handle),
                          Enumerable(connected, rq.args[1], rq.args[2])),
                   "open_sensor", <<device_id, product>>)
  /\ UNCHANGED libOpen

close_sensor32(s, handle) ==
  LET res == V_CloseRes(s, handle)
  IN Out(ReturnCode(WithV(Call("close_sensor", s, handle),
                          <<VC0("GoIO_Sensor_Close", handle, res)>>), res),
         V_Close(s, handle))

close_sensor ==
  /\ ~rr.active
  /\ \E handle \in HandleArgs :
       LET rq == Request64("close_sensor", <<handle>>)
       IN Commit(close_sensor32(sess, rq.args[1]), "close_sensor", <<handle>>)
  /\ UNCHANGED libOpen

clear_sensor32(s, handle) ==
  LET res == V_ClearRes(s, handle)
  IN Out(ReturnCode(WithV(Call("clear_sensor", s, handle),
                          <<VC0("GoIO_Sensor_ClearIO", handle, res)>>), res),
         V_Clear(s, handle))

clear_sensor ==
  /\ ~rr.active
  /\ \E handle \in HandleArgs :
       LET rq == Request64("clear_sensor", <<handle>>)
       IN Commit(clear_sensor32(sess, rq.args[1]), "clear_sensor", <<handle>>)
  /\ UNCHANGED libOpen

\* GoIO_Sensor_GetOpenDeviceName: 0 and the identity of an open session.
V_InfoRes(s, h) == IF V_Valid(s, h) THEN 0 ELSE -1

\* get_sensor_info without the check of the vendor's code.
get_sensor_info32_unchecked(s, handle) ==
  LET res == V_InfoRes(s, handle)
      c == WithV(Call("get_sensor_info", s, handle),
                 <<VC0("GoIO_Sensor_GetOpenDeviceName", handle, res)>>)
  IN Out([ReturnData(c, << >>) EXCEPT !.info =
            SensorInfo(handle, "", "ValueError", "ValueError")], s)

get_sensor_info32(s, handle) ==
  LET res == V_InfoRes(s, handle)
      c == WithV(Call("get_sensor_info", s, handle),
                 <<VC0("GoIO_Sensor_GetOpenDeviceName", handle, res)>>)
  IN IF res # 0
     THEN Out([Raise(WithText(c, "Get Sensor Info returned with error"), "GoIOError")
               EXCEPT !.code = res], s)
     ELSE Out([ReturnData(c, << >>) EXCEPT !.info =
                 SensorInfo(handle, s[handle].dev,
                            ByValue(VendorID32, ValueOf(VendorID32, "Vernier")),
                            ByValue(ProductID32, DevProduct(s[handle].dev)))], s)

get_sensor_info ==
  /\ ~rr.active
  /\ \E handle \in HandleArgs :
       LET rq == Request64("get_sensor_info", <<handle>>)
       IN Commit(get_sensor_info32(sess, rq.args[1]), "get_sensor_info", <<handle>>)
  /\ UNCHANGED libOpen

(***************************************************************************)
(* GoIOWrapper32: command exchanges.                                       *)
(***************************************************************************)
CommandItems ==
  {Member("SensorCommand", "START_MEASUREMENTS"),
   Str("stop_measurements"), Str("bogus")}

ParamArgs == {"None", "LEDParam"}
ResponseArgs == {"None", "DefaultResponse", "LEDParam"}

\* byref(x) if x is not None else None
BufArg(x) == IF x = "None" THEN "NULL" ELSE x

\* The exchange without the timeout.
send_command_get_response32_notimeout(s, handle, command, parameter, response, res) ==
  LET chk == enum_checker("SensorCommand", SensorCommand32, command)
      command_char == ValueOf(SensorCommand32, chk.name)
      parameter_len == IF parameter = "None" THEN 0 ELSE sizeof(parameter)
      response_len == IF response = "None" THEN 0 ELSE sizeof(response)
      c == [Call("send_command_get_response", s, handle) EXCEPT
              !.param = parameter, !.response = response]
      vc == VC("GoIO_Sensor_SendCmdAndGetResponse", handle, command_char,
               BufArg(parameter), parameter_len,
               BufArg(response), response_len, 0, res)
  IN IF ~chk.ok THEN Out(Raise(c, "ValueError"), s)
     ELSE IF res # 0
     THEN Out([Raise(WithV(c, <<vc>>), "GoIOError") EXCEPT
                 !.cmd = chk.name, !.code = res],
              V_Cmd(s, handle, command_char, res))
     ELSE Out([WithV(c, <<vc>>) EXCEPT
                 !.kind = "return",
                 !.shape = IF response = "None" THEN "none" ELSE "data",
                 !.retbuf = response, !.cmd = chk.name],
              V_Cmd(s, handle, command_char, res))

\* res is the code the vendor ends this exchange with.  The response length
\* travels by reference, byref(c_int(response_len)), and as a null reference
\* when there is no response; rlen is the length the vendor reads.
send_command_get_response32(s, handle, command, parameter, response, res) ==
  LET chk == enum_checker("SensorCommand", SensorCommand32, command)
      command_char == ValueOf(SensorCommand32, chk.name)
      parameter_len == IF parameter = "None" THEN 0 ELSE sizeof(parameter)
      response_len == IF response = "None" THEN 0 ELSE sizeof(response)
      c == [Call("send_command_get_response", s, handle) EXCEPT
              !.param = parameter, !.response = response]
      vc == VC("GoIO_Sensor_SendCmdAndGetResponse", handle, command_char,
               BufArg(parameter), parameter_len,
               BufArg(response), response_len, 1000, res)
  IN IF ~chk.ok THEN Out(Raise(c, "ValueError"), s)
     ELSE IF res # 0
     THEN Out([Raise(WithV(c, <<vc>>), "GoIOError") EXCEPT
                 !.cmd = chk.name, !.code = res],
              V_Cmd(s, handle, command_char, res))
     ELSE Out([WithV(c, <<vc>>) EXCEPT
                 !.kind = "return",
                 !.shape = IF response = "None" THEN "none" ELSE "data",
                 !.retbuf = response, !.cmd = chk.name],
              V_Cmd(s, handle, command_char, res))

send_command_get_response ==
  /\ ~rr.active
  /\ \E handle \in HandleArgs, command \in CommandItems,
        parameter \in ParamArgs, response \in ResponseArgs :
       LET rq == Request64("send_command_get_response",
                           <<handle, command, parameter, response>>)
       IN \E res \in V_CmdResults(sess, rq.args[1]) :
            \* an invalid command raises before the vendor is called: the
            \* vendor has no code to choose
            /\ enum_checker("SensorCommand", SensorCommand32, rq.args[2]).ok
                 \/ res = -1
            /\ Commit(send_command_get_response32(sess, rq.args[1], rq.args[2],
                                                  rq.args[3], rq.args[4], res),
                      "send_command_get_response",
                      <<handle, command, parameter, response>>)
  /\ UNCHANGED libOpen

\* The method that called send_command_get_response owns the call record.
As(op, r) == Out([r.last EXCEPT !.op = op], r.sess)

\* The status byte the device answers GET_STATUS with.
StatusBytes == {0, 48}

\* status: the byte the vendor wrote into the DefaultResponse.
get_status32(s, handle, res, status) ==
  LET r == As("get_status",
              send_command_get_response32(
                s, handle, Member("SensorCommand", "GET_STATUS"), "None",
                "DefaultResponse", res))
  IN IF r.last.kind = "raise" THEN r
     ELSE IF ByValue(SensorStatus32, status) = "ValueError"
     THEN Out(Raise(r.last, "ValueError"), r.sess)
     ELSE Out([r.last EXCEPT !.shape = "data", !.retbuf = "None",
                             !.text = ByValue(SensorStatus32, status)], r.sess)

get_status ==
  /\ ~rr.active
  /\ \E handle \in HandleArgs, status \in StatusBytes :
       LET rq == Request64("get_status", <<handle>>)
       IN \E res \in V_CmdResults(sess, rq.args[1]) :
            Commit(get_status32(sess, rq.args[1], res, status),
                   "get_status", <<handle>>)
  /\ UNCHANGED libOpen

\* GoIO_Sensor_GetLastCmdResponseStatus: 0 iff the handle is an open session.
V_LastStatusRes(s, h) == IF V_Valid(s, h) THEN 0 ELSE -1

get_response_status32(s, handle) ==
  LET res == V_LastStatusRes(s, handle)
      c == WithV(Call("get_response_status", s, handle),
                 <<VC0("GoIO_Sensor_GetLastCmdResponseStatus", handle, res)>>)
  IN IF res # 0
     THEN Out(Raise(WithText(c, "Status could not be fetched"), "GoIOError"), s)
     ELSE Out(ReturnData(c, << >>), s)

get_response_status ==
  /\ ~rr.active
  /\ \E handle \in HandleArgs :
       LET rq == Request64("get_response_status", <<handle>>)
       IN Commit(get_response_status32(sess, rq.args[1]),
                 "get_response_status", <<handle>>)
  /\ UNCHANGED libOpen

get_led_status32(s, handle, res) ==
  As("get_led_status",
     send_command_get_response32(
       s, handle, Member("SensorCommand", "GET_LED_STATE"), "None", "LEDParam", res))

get_led_status ==
  /\ ~rr.active
  /\ \E handle \in HandleArgs :
       LET rq == Request64("get_led_status", <<handle>>)
       IN \E res \in V_CmdResults(sess, rq.args[1]) :
            Commit(get_led_status32(sess, rq.args[1], res),
                   "get_led_status", <<handle>>)
  /\ UNCHANGED libOpen

ColorItems == {Member("LEDColor", "GREEN"), Str("Red")}
BrightnessItems == {Member("LEDBrightness", "BRIGHTNESS_MAX"), OtherItem}

set_led32(s, handle, color, brightness, res) ==
  LET c == Call("set_led", s, handle)
      col == enum_checker("LEDColor", LEDColor32, color)
      bri == enum_checker("LEDBrightness", LEDBrightness32, brightness)
  IN IF ~col.ok \/ ~bri.ok THEN Out(Raise(c, "ValueError"), s)
     ELSE As("set_led",
             send_command_get_response32(
               s, handle, Member("SensorCommand", "SET_LED_STATE"), "LEDParam",
               "LEDParam", res))

set_led ==
  /\ ~rr.active
  /\ \E handle \in HandleArgs, color \in ColorItems, brightness \in BrightnessItems :
       LET rq == Request64("set_led", <<handle, color, brightness>>)
       IN \E res \in V_CmdResults(sess, rq.args[1]) :
            Commit(set_led32(sess, rq.args[1], rq.args[2], rq.args[3], res),
                   "set_led", <<handle, color, brightness>>)
  /\ UNCHANGED libOpen

\* start and stop return None: the response of the exchange is dropped.
start32(s, handle, res) ==
  As("start",
     send_command_get_response32(
       s, handle, Member("SensorCommand", "START_MEASUREMENTS"), "None", "None", res))

start ==
  /\ ~rr.active
  /\ \E handle \in HandleArgs :
       LET rq == Request64("start", <<handle>>)
       IN \E res \in V_CmdResults(sess, rq.args[1]) :
            Commit(start32(sess, rq.args[1], res), "start", <<handle>>)
  /\ UNCHANGED libOpen

stop32(s, handle, res) ==
  As("stop",
     send_command_get_response32(
       s, handle, Member("SensorCommand", "STOP_MEASUREMENTS"), "None", "None", res))

stop ==
  /\ ~rr.active
  /\ \E handle \in HandleArgs :
       LET rq == Request64("stop", <<handle>>)
       IN \E res \in V_CmdResults(sess, rq.args[1]) :
            Commit(stop32(sess, rq.args[1], res), "stop", <<handle>>)
  /\ UNCHANGED libOpen

(***************************************************************************)
(* GoIOWrapper32: measurements.                                            *)
(***************************************************************************)
get_n_available_measurements32(s, handle) ==
  LET n == V_NumAvailable(s, handle)
  IN Out(ReturnData(WithV(Call("get_n_available_measurements", s, handle),
                          <<VC0("GoIO_Sensor_GetNumMeasurementsAvailable", handle, n)>>),
                    <<n>>), s)

get_n_available_measurements ==
  /\ ~rr.active
  /\ \E handle \in HandleArgs :
       LET rq == Request64("get_n_available_measurements", <<handle>>)
       IN Commit(get_n_available_measurements32(sess, rq.args[1]),
                 "get_n_available_measurements", <<handle>>)
  /\ UNCHANGED libOpen

\* (c_int * n)(): n zeros.
Zeros(n) == [i \in 1..n |-> 0]

\* read_raw, first vendor call: max_count = get_n_available_measurements.
read_raw_count ==
  /\ ~rr.active
  /\ \E handle \in HandleArgs :
       LET rq == Request64("read_raw", <<handle>>)
           r == get_n_available_measurements32(sess, rq.args[1])
       IN /\ rr' = [active |-> TRUE, h |-> rq.args[1], max_count |-> r.last.data[1]]
          /\ last' = Relayed([r.last EXCEPT !.op = "read_raw", !.kind = "pending",
                                            !.shape = "none", !.data = << >>],
                             "read_raw", <<handle>>)
  /\ UNCHANGED <<libOpen, connected, sess, hist, gd, pl>>

\* read_raw with an array one entry longer than the count.
read_raw32_plus1(s, c, handle, max_count) ==
  LET n == V_ReadCount(s, handle, max_count + 1)
      q == IF V_Valid(s, handle) THEN s[handle].queue ELSE << >>
      data == SubSeq(q, 1, n) \o Zeros(max_count + 1 - n)
  IN Out([ReturnData(c, data) EXCEPT
            !.vcalls = Append(@, VC0("GoIO_Sensor_ReadRawMeasurements", handle, n)),
            !.qread = q],
         V_Read(s, handle, max_count + 1))

\* read_raw, second vendor call and return: the array of max_count c_int is
\* passed to GoIO_Sensor_ReadRawMeasurements, whose return value (how many
\* it copied) is dropped, and the whole array is returned as a list.
read_raw32(s, c, handle, max_count) ==
  LET n == V_ReadCount(s, handle, max_count)
      q == IF V_Valid(s, handle) THEN s[handle].queue ELSE << >>
      data == SubSeq(q, 1, n) \o Zeros(max_count - n)
  IN Out([ReturnData(c, data) EXCEPT
            !.vcalls = Append(@, VC0("GoIO_Sensor_ReadRawMeasurements", handle, n)),
            !.qread = q],
         V_Read(s, handle, max_count))

read_raw_read ==
  /\ rr.active
  /\ LET r == read_raw32(sess, last, rr.h, rr.max_count)
     IN /\ last' = r.last
        /\ sess' = r.sess
        /\ hist' = HistAfter(sess, r.sess, rr.h, r.last.data)
  /\ rr' = NoRR
  /\ UNCHANGED <<libOpen, connected, gd, pl>>

\* read_raw_latest that takes the oldest stored measurement instead.
read_raw_latest32_oldest(s, handle) ==
  LET q == IF V_Valid(s, handle) THEN s[handle].queue ELSE << >>
  IN Out([ReturnData(WithV(Call("read_raw_latest", s, handle),
                           <<VC0("GoIO_Sensor_ReadRawMeasurements", handle,
                                 V_ReadCount(s, handle, 1))>>),
                     <<IF Len(q) > 0 THEN q[1] ELSE 0>>)
          EXCEPT !.qread = q],
         V_Read(s, handle, 1))

read_raw_latest32(s, handle) ==
  Out([ReturnData(WithV(Call("read_raw_latest", s, handle),
                        <<VC0("GoIO_Sensor_GetLatestRawMeasurement", handle,
                              V_LatestValue(s, handle))>>),
                  <<V_LatestValue(s, handle)>>)
       EXCEPT !.qread = IF V_Valid(s, handle) THEN s[handle].queue ELSE << >>],
      V_Latest(s, handle))

read_raw_latest ==
  /\ ~rr.active
  /\ \E handle \in HandleArgs :
       LET rq == Request64("read_raw_latest", <<handle>>)
       IN Commit(read_raw_latest32(sess, rq.args[1]), "read_raw_latest", <<handle>>)
  /\ UNCHANGED libOpen

(***************************************************************************)
(* GoIOWrapper32: conversions.  The vendor's two conversions are opaque;   *)
(* a converted value is written as the pair <<unit, source value>>.        *)
(***************************************************************************)
RawArgs == {1}

V_ConvertToVoltage(s, h, raw) == <<"V", raw>>
V_CalibrateData(s, h, volt) == <<"cal", volt>>

raw_to_voltage32(s, handle, raw_data) ==
  Out(ReturnData(WithV(Call("raw_to_voltage", s, handle),
                       <<VC0("GoIO_Sensor_ConvertToVoltage", handle, 0)>>),
                 <<V_ConvertToVoltage(s, handle, raw_data)>>), s)

volt_to_calibrated32(s, handle, volt_data) ==
  Out(ReturnData(WithV(Call("volt_to_calibrated", s, handle),
                       <<VC0("GoIO_Sensor_CalibrateData", handle, 0)>>),
                 <<V_CalibrateData(s, handle, volt_data)>>), s)

raw_to_calibrated32(s, handle, raw_data) ==
  LET v == raw_to_voltage32(s, handle, raw_data)
      c == volt_to_calibrated32(v.sess, handle, v.last.data[1])
  IN Out([c.last EXCEPT !.op = "raw_to_calibrated",
                        !.vcalls = v.last.vcalls \o c.last.vcalls], c.sess)

raw_to_voltage ==
  /\ ~rr.active
  /\ \E handle \in HandleArgs, raw_data \in RawArgs :
       LET rq == Request64("raw_to_voltage", <<handle, raw_data>>)
       IN Commit(IF Dispatchable(rq)
                 THEN raw_to_voltage32(sess, rq.args[1], rq.args[2])
                 ELSE TypeErrorOut(rq, sess),
                 "raw_to_voltage", <<handle, raw_data>>)
  /\ UNCHANGED libOpen

volt_to_calibrated ==
  /\ ~rr.active
  /\ \E handle \in HandleArgs, volt_data \in RawArgs :
       LET rq == Request64("volt_to_calibrated", <<handle, volt_data>>)
       IN Commit(IF Dispatchable(rq)
                 THEN volt_to_calibrated32(sess, rq.args[1], rq.args[2])
                 ELSE TypeErrorOut(rq, sess),
                 "volt_to_calibrated", <<handle, volt_data>>)
  /\ UNCHANGED libOpen

raw_to_calibrated ==
  /\ ~rr.active
  /\ \E handle \in HandleArgs, raw_data \in RawArgs :
       LET rq == Request64("raw_to_calibrated", <<handle, raw_data>>)
       IN Commit(IF Dispatchable(rq)
                 THEN raw_to_calibrated32(sess, rq.args[1], rq.args[2])
                 ELSE TypeErrorOut(rq, sess),
                 "raw_to_calibrated", <<handle, raw_data>>)
  /\ UNCHANGED libOpen

(***************************************************************************)
(* GoIOWrapper32: enumeration.                                             *)
(***************************************************************************)
\* GoIO_GetNthAvailableDeviceName may fail although the index is in range.
V_NthResults == {0, -1}

\* qread: the list the vendor built for this call.
get_connected_products32(s, conn, product) ==
  LET chk == enum_checker("ProductID", ProductID32, product)
      c == Call("get_connected_products", s, 0)
      list == V_DeviceList(conn, ValueOf(VendorID32, "Vernier"),
                           ValueOf(ProductID32, chk.name))
      n == Len(list)
  IN IF ~chk.ok THEN Out(Raise(c, "ValueError"), s)
     ELSE Out([ReturnData(WithV(c, <<VC0("GoIO_UpdateListOfAvailableDevices", 0, n)>>),
                          <<n>>) EXCEPT !.qread = list], s)

get_connected_products ==
  /\ ~rr.active /\ ~gd.active
  /\ \E product \in ProductItems :
       LET rq == Request64("get_connected_products", <<product>>)
       IN Commit(get_connected_products32(sess, connected, rq.args[1]),
                 "get_connected_products", <<product>>)
  /\ UNCHANGED libOpen

\* The 256-byte buffer starts empty and stays so unless the vendor fills it;
\* the code GoIO_GetNthAvailableDeviceName returns is not looked at.
get_device_by_index32(s, conn, product, index, res) ==
  LET chk == enum_checker("ProductID", ProductID32, product)
      c == Call("get_device_by_index", s, 0)
      n == get_connected_products32(s, conn, product)
      list == V_DeviceList(conn, ValueOf(VendorID32, "Vernier"),
                           ValueOf(ProductID32, chk.name))
  IN IF ~chk.ok THEN Out(Raise(c, "ValueError"), s)
     ELSE IF index < n.last.data[1]
     THEN Out([ReturnData(WithV(c, n.last.vcalls \o
                                   <<VC0("GoIO_GetNthAvailableDeviceName", 0, res)>>),
                          << >>)
               EXCEPT !.text = IF res = 0 THEN list[index + 1] ELSE "",
                      !.qread = list], s)
     ELSE Out([ReturnData(WithV(c, n.last.vcalls), << >>)
               EXCEPT !.text = "", !.qread = list], s)

IndexArgs == {0, 1}

get_device_by_index ==
  /\ ~rr.active /\ ~gd.active
  /\ \E product \in ProductItems, index \in IndexArgs, res \in V_NthResults :
       LET rq == Request64("get_device_by_index", <<product, index>>)
       IN Commit(get_device_by_index32(sess, connected, rq.args[1], rq.args[2], res),
                 "get_device_by_index", <<product, index>>)
  /\ UNCHANGED libOpen

\* get_devices, first enumeration: n_devices = get_connected_products(product).
\* With no device the loop body never runs and the empty list is returned.
get_devices_count ==
  /\ ~rr.active /\ ~gd.active
  /\ \E product \in ProductItems :
       LET rq == Request64("get_devices", <<product>>)
           r == get_connected_products32(sess, connected, rq.args[1])
           c == Relayed([r.last EXCEPT !.op = "get_devices", !.data = << >>],
                        "get_devices", <<product>>)
       IN IF r.last.kind = "raise" \/ r.last.data[1] = 0
          THEN last' = c /\ gd' = NoGD
          ELSE /\ last' = [c EXCEPT !.kind = "pending"]
               /\ gd' = [active |-> TRUE, product |-> rq.args[1],
                         n |-> r.last.data[1], ind |-> 0, devices |-> << >>]
  /\ UNCHANGED <<libOpen, connected, sess, hist, rr, pl>>

\* get_devices, one turn of the loop: get_device_by_index(product, ind)
\* enumerates again and its result is appended; after the last index the
\* list is returned.
get_devices_next ==
  /\ gd.active
  /\ \E res \in V_NthResults :
       LET r == get_device_by_index32(sess, connected, gd.product, gd.ind, res)
           devices == Append(gd.devices, r.last.text)
           c == [last EXCEPT !.vcalls = @ \o r.last.vcalls,
                             !.qread = r.last.qread]
       IN IF gd.ind + 1 < gd.n
          THEN /\ gd' = [gd EXCEPT !.ind = @ + 1, !.devices = devices]
               /\ last' = c
          ELSE /\ gd' = NoGD
               /\ last' = ReturnData(c, devices)
  /\ UNCHANGED <<libOpen, connected, sess, hist, rr, pl>>

(***************************************************************************)
(* goio_wrapper.py: GoIOWrapper, the in-process wrapper.  It is called     *)
(* directly: nothing is relayed.                                           *)
(***************************************************************************)
CommitW(r) ==
  \E o \in {r} :
    /\ last' = o.last
    /\ sess' = o.sess
    /\ hist' = Opened(HistAfter(sess, o.sess, 0, << >>), o.last)
    /\ UNCHANGED <<connected, rr, gd, pl>>

W_open_library(s, res) ==
  LET c == WithV(Call("W.open_library", s, 0), <<VC0("GoIO_Init", 0, res)>>)
  IN IF res # 0
     THEN Out(Raise(WithText(c, "Library opening failed"), "GoIOError"), s)
     ELSE Out(ReturnNone(c), s)

W_open_library_call ==
  /\ ~rr.active
  /\ \E res \in V_InitResults :
       /\ CommitW(W_open_library(sess, res))
       /\ libOpen' = (libOpen \/ res = 0)

W_open_sensor(s, device_id, product, handle) ==
  LET chk == enum_checker("ProductID", ProductIDW, product)
      c == Call("W.open_sensor", s, handle)
  IN IF ~chk.ok THEN Out(Raise(c, "ValueError"), s)
     ELSE Out([ReturnData(
                 WithV(c, <<VC0("GoIO_Sensor_Open", handle, handle)>>), << >>)
               EXCEPT !.info = SensorInfo(handle, device_id, "Vernier", chk.name)],
              V_Open(s, handle, device_id))

W_open_sensor_call ==
  /\ ~rr.active
  /\ \E device_id \in DeviceArgs, product \in ProductItems :
       \E handle \in OpenChoices(libOpen, connected, sess, device_id, product) :
         CommitW(Noting(W_open_sensor(sess, device_id, product, handle),
                        Enumerable(connected, device_id, product)))
  /\ UNCHANGED libOpen

W_close_sensor(s, handle) ==
  LET res == V_CloseRes(s, handle)
  IN Out(ReturnCode(WithV(Call("W.close_sensor", s, handle),
                          <<VC0("GoIO_Sensor_Close", handle, res)>>), res),
         V_Close(s, handle))

W_close_sensor_call ==
  /\ ~rr.active
  /\ \E handle \in HandleArgs : CommitW(W_close_sensor(sess, handle))
  /\ UNCHANGED libOpen

WCommandItems ==
  {Member("SensorCommand", "START_MEASUREMENTS"), Str("stop_measurements"),
   Str("bogus")}

\* The sixth argument of the exchange is the response length by value where
\* the vendor reads a reference: fault is the access violation that can
\* come of it, which ctypes raises as OSError.
W_send_command(s, handle, command, parameter, response, res, fault) ==
  LET chk == enum_checker("SensorCommand", SensorCommandW, command)
      command_char == ValueOf(SensorCommandW, chk.name)
      parameter_len == PointerSize
      c == [Call("W.send_command", s, handle) EXCEPT
              !.param = parameter, !.response = response]
  IN IF ~chk.ok THEN Out(Raise(c, "ValueError"), s)
     ELSE IF response = "None" THEN Out(Raise(c, "TypeError"), s)
     ELSE LET response_len == sizeof(response)
              vc == VC("GoIO_Sensor_SendCmdAndGetResponse", handle, command_char,
                       BufArg(parameter), parameter_len,
                       BufArg(response), response_len, 1000, res)
          IN IF fault THEN Out(Raise(WithV(c, <<vc>>), "OSError"), s)
             ELSE IF res # 0
             THEN Out([Raise(WithV(c, <<vc>>), "GoIOError") EXCEPT
                         !.cmd = chk.name, !.code = res],
                      V_Cmd(s, handle, command_char, res))
             ELSE Out([ReturnNone(WithV(c, <<vc>>)) EXCEPT !.cmd = chk.name],
                      V_Cmd(s, handle, command_char, res))

W_send_command_call ==
  /\ ~rr.active
  /\ \E handle \in HandleArgs, command \in WCommandItems, parameter \in ParamArgs,
        response \in ResponseArgs, fault \in BOOLEAN :
       \E res \in V_CmdResults(sess, handle) :
         CommitW(W_send_command(sess, handle, command, parameter, response,
                                res, fault))
  /\ UNCHANGED libOpen

W_get_status(s, handle, res, fault) ==
  As("W.get_status",
     W_send_command(s, handle, Member("SensorCommand", "GET_STATUS"), "None",
                    "DefaultResponse", res, fault))

W_get_status_call ==
  /\ ~rr.active
  /\ \E handle \in HandleArgs, fault \in BOOLEAN :
       \E res \in V_CmdResults(sess, handle) :
         CommitW(W_get_status(sess, handle, res, fault))
  /\ UNCHANGED libOpen

W_blink_led(s, handle, color, brightness, res, fault) ==
  LET col == enum_checker("LEDColor", LEDColorW, color)
      bri == enum_checker("LEDBrightness", LEDBrightnessW, brightness)
  IN IF ~col.ok \/ ~bri.ok
     THEN Out(Raise(Call("W.blink_led", s, handle), "ValueError"), s)
     ELSE As("W.blink_led",
             W_send_command(s, handle, Member("SensorCommand", "SET_LED_STATE"),
                            "LEDParam", "DefaultResponse", res, fault))

W_blink_led_call ==
  /\ ~rr.active
  /\ \E handle \in HandleArgs, color \in ColorItems, brightness \in BrightnessItems,
        fault \in BOOLEAN :
       \E res \in V_CmdResults(sess, handle) :
         CommitW(W_blink_led(sess, handle, color, brightness, res, fault))
  /\ UNCHANGED libOpen

(***************************************************************************)
(* Enum lookups: a name to its code, the code back to a member, and the    *)
(* code the other module gives the same name (-1 when it has no such name).*)
(***************************************************************************)
OtherFile(file) == IF file = "server32" THEN "wrapper" ELSE "server32"

EnumLookup(file, enum, name) ==
  [Call0 EXCEPT !.op = "enum_lookup", !.file = file, !.enum = enum,
                !.name = name,
                !.code = ValueOf(EnumTable(file, enum), name),
                !.back = ByValue(EnumTable(file, enum),
                                 ValueOf(EnumTable(file, enum), name)),
                !.other = ValueOf(EnumTable(OtherFile(file), enum), name)]

enum_lookup ==
  /\ ~rr.active
  /\ \E file \in {"server32", "wrapper"} :
       \E enum \in (IF file = "server32" THEN EnumNames32 ELSE EnumNamesW) :
         \E name \in NameSet(EnumTable(file, enum)) :
           last' = EnumLookup(file, enum, name)
  /\ UNCHANGED <<libOpen, connected, sess, hist, rr, gd, pl>>

(***************************************************************************)
(* enum_checker applied to the items callers pass.                         *)
(***************************************************************************)
CheckedEnums == {"ProductID", "SensorCommand", "LEDColor", "LEDBrightness"}

CheckItems(file, enum) ==
  {Member(e, n) : e \in {enum, "ProbeType"}, n \in NameSet(EnumTable(file, enum))}
    \cup {Str(n) : n \in NameSet(EnumTable(file, enum))}
    \cup {Str(Lower(n)) : n \in NameSet(EnumTable(file, enum))}
    \cup {Str("GOLINK"), Str("Red"), Str("bogus"), Str(""), OtherItem}

EnumCheck(file, enum, item) ==
  LET chk == enum_checker(enum, EnumTable(file, enum), item)
  IN [Call0 EXCEPT !.op = "enum_checker", !.file = file, !.enum = enum,
                   !.args = <<item>>,
                   !.kind = IF chk.ok THEN "return" ELSE "raise",
                   !.exc = IF chk.ok THEN "" ELSE "ValueError",
                   !.back = chk.name]

enum_check ==
  /\ ~rr.active
  /\ \E file \in {"server32", "wrapper"}, enum \in CheckedEnums :
       \E item \in CheckItems(file, enum) :
         last' = EnumCheck(file, enum, item)
  /\ UNCHANGED <<libOpen, connected, sess, hist, rr, gd, pl>>

(***************************************************************************)
(* daq_0Dviewer_GoIO.py: the viewer plugin.  Its controller is a Sensor,   *)
(* which holds the handle of the one sensor it opened and turns each of    *)
(* its methods into the wrapper method of the same purpose.  A controller  *)
(* call is a request that waits at the server (Send), is executed there    *)
(* (ServeBegin to ServeEnd) and returns, or raises, in the calling thread. *)
(***************************************************************************)
\* grab_data starting the sensor on every call.
Script_restart(cb, running, master) ==
  CASE cb = "ini_detector" ->
         (IF master THEN <<"init_library">> ELSE << >>) \o <<"open">>
    [] cb = "close" -> <<"close">>
    [] cb = "grab_data" -> <<"start", "get_last_measurement">>
    [] cb = "stop" -> <<"stop">>
    [] OTHER -> << >>

\* The controller calls a callback makes, in order, while none raises.
Script(cb, running, master) ==
  CASE cb = "ini_detector" ->
         (IF master THEN <<"init_library">> ELSE << >>) \o <<"open">>
    [] cb = "close" -> <<"close">>
    [] cb = "grab_data" ->
         (IF ~running THEN <<"start">> ELSE << >>) \o <<"get_last_measurement">>
    [] cb = "stop" -> <<"stop">>
    [] OTHER -> << >>

\* Thread t enters callback cb: what the callback does before its first
\* controller call.
Invoke(t, cb, device, master) ==
  /\ pl' = [pl EXCEPT
              !.th[t] = [Idle EXCEPT
                           !.cb = cb,
                           !.script = Script(cb, pl.running, master),
                           !.nth = IF cb = "grab_data" /\ pl.grabs >= 0
                                   THEN Min(pl.grabs + 1, 2) ELSE 0,
                           !.good = cb = "grab_data" /\ pl.good,
                           !.device = device],
              !.running = IF cb = "stop" THEN FALSE ELSE @,
              !.handle = IF cb = "ini_detector" THEN 0 ELSE @,
              !.grabs = IF cb = "grab_data" /\ @ >= 0 THEN Min(@ + 1, 2) ELSE @]
  /\ UNCHANGED <<libOpen, connected, sess, hist, rr, last, gd>>

\* The host calls one callback at a time: ini_detector first (again after a
\* failure or a close), then grab_data, stop and close in any order.
HostCall ==
  /\ \A t \in DOMAIN pl.th : pl.th[t].cb = "none"
  /\ \/ /\ pl.phase \in {"new", "closed"}
        /\ \E device \in DeviceArgs, master \in BOOLEAN :
             Invoke(1, "ini_detector", device, master)
     \/ /\ pl.phase = "ready"
        /\ \E cb \in {"grab_data", "stop", "close"} : Invoke(1, cb, "", FALSE)

\* A host that does not wait: a callback begins while another is running.
HostCallOverlap ==
  /\ pl.phase = "ready"
  /\ \E t \in DOMAIN pl.th :
       /\ pl.th[t].cb = "none"
       /\ \E u \in DOMAIN pl.th : pl.th[u].cb \in {"grab_data", "stop", "close"}
       /\ \E cb \in {"grab_data", "stop", "close"} : Invoke(t, cb, "", FALSE)

\* self.controller.<method>(): the request leaves and the thread blocks.
Send ==
  \E t \in DOMAIN pl.th :
    LET me == pl.th[t]
    IN /\ me.cb # "none" /\ ~me.wait /\ me.script # << >>
       /\ pl' = [pl EXCEPT
                   !.th[t] = [me EXCEPT !.wait = TRUE,
                                        !.calls = Append(@, Head(me.script))],
                   !.wire = Append(@, t),
                   !.since = CASE Head(me.script) = "start" -> TRUE
                               [] Head(me.script) = "stop" -> FALSE
                               [] OTHER -> @]
       /\ UNCHANGED <<libOpen, connected, sess, hist, rr, last, gd>>

\* The server handles one request at a time, in the order of arrival.
ServeBegin ==
  /\ pl.wire # << >>
  /\ pl.exec = {}
  /\ pl' = [pl EXCEPT !.exec = {Head(pl.wire)}, !.wire = Tail(@)]
  /\ UNCHANGED <<libOpen, connected, sess, hist, rr, last, gd>>

\* Sensor: init_library, open(device_id, product), close, start, stop and
\* get_last_measurement on the handle open() stored.  open() of a device
\* that cannot be opened raises (strict) or returns the SensorInfo of
\* handle 0.
SensorCall(m, s, handle, device, res, oh, strict) ==
  CASE m = "init_library" -> open_library32(s, res)
    [] m = "open" ->
         LET r == open_sensor32(s, device, Str("GoLink"), oh)
         IN IF oh = 0 /\ strict
            THEN Out(Raise(WithText(r.last, "Sensor opening failed"), "GoIOError"),
                     r.sess)
            ELSE r
    [] m = "close" -> close_sensor32(s, handle)
    [] m = "start" -> start32(s, handle, res)
    [] m = "stop" -> stop32(s, handle, res)
    [] OTHER -> read_raw_latest32(s, handle)

\* The server finishes the request of thread t; the thread goes on to its
\* next controller call or leaves the callback, by return or by the
\* exception the call raised.
ServeEnd ==
  \E t \in pl.exec, res \in {0, -1}, oh \in HandleArgs, strict \in BOOLEAN :
    LET me == pl.th[t]
        m == Head(me.script)
        r == SensorCall(m, sess, pl.handle, me.device, res, oh, strict)
        raised == r.last.kind = "raise"
        failed == me.failed \/ raised \/ (m = "open" /\ oh = 0)
        rest == Tail(me.script)
        ends == raised \/ rest = << >>
        emitted == IF ~raised /\ m = "get_last_measurement"
                   THEN Append(me.emitted, <<r.last.data[1]>>)
                   ELSE me.emitted
        running == IF ~raised /\ m = "start" THEN TRUE ELSE pl.running
        handle == IF ~raised /\ m = "open" THEN r.last.info.handle ELSE pl.handle
        log == [cb |-> me.cb, kind |-> IF raised THEN "raise" ELSE "return",
                initialized |-> me.cb = "ini_detector" /\ ~raised,
                failed |-> failed, calls |-> me.calls, emitted |-> emitted,
                running |-> running,
                measuring |-> V_Valid(r.sess, handle) /\ r.sess[handle].measuring,
                nth |-> me.nth, good |-> me.good]
    IN /\ m = "open" =>
            oh \in OpenChoices(libOpen, connected, sess, me.device, Str("GoLink"))
       /\ m \in {"start", "stop"} => res \in V_CmdResults(sess, pl.handle)
       /\ pl' = [pl EXCEPT
                   !.exec = {},
                   !.running = running,
                   !.handle = handle,
                   !.th[t] = IF ends THEN Idle
                             ELSE [me EXCEPT !.script = rest, !.wait = FALSE,
                                             !.failed = failed,
                                             !.emitted = emitted],
                   !.log = IF ends THEN log ELSE @,
                   !.phase = CASE ends /\ me.cb = "ini_detector" ->
                                    IF raised THEN "new" ELSE "ready"
                               [] ends /\ me.cb = "close" -> "closed"
                               [] OTHER -> @,
                   !.grabs = IF ends /\ me.cb = "stop" THEN 0 ELSE @,
                   !.good = CASE ends /\ me.cb = "stop" -> FALSE
                              [] ends /\ me.cb = "grab_data" /\ ~raised -> TRUE
                              [] OTHER -> @]
       /\ last' = r.last
       /\ sess' = r.sess
       /\ hist' = Opened(HistAfter(sess, r.sess, 0, << >>), r.last)
       /\ libOpen' = (libOpen \/ (m = "init_library" /\ res = 0))
       /\ UNCHANGED <<connected, rr, gd>>

(***************************************************************************)
(* Specifications.  Spec: the 64-bit client in front of the 32-bit server. *)
(* SpecW: the in-process wrapper of goio_wrapper.py.  SpecEnum: the enum   *)
(* tables and enum_checker on their own.                                   *)
(***************************************************************************)
Next ==
  \/ Plug
  \/ Unplug
  \/ Produce
  \/ open_library
  \/ close_library
  \/ get_version
  \/ open_sensor
  \/ close_sensor
  \/ clear_sensor
  \/ get_sensor_info
  \/ send_command_get_response
  \/ get_status
  \/ get_response_status
  \/ get_led_status
  \/ set_led
  \/ start
  \/ stop
  \/ get_n_available_measurements
  \/ read_raw_count
  \/ read_raw_read
  \/ read_raw_latest
  \/ raw_to_voltage
  \/ volt_to_calibrated
  \/ raw_to_calibrated
  \/ get_connected_products
  \/ get_device_by_index

Spec == Init /\ [][Next]_vars

NextW ==
  \/ Plug
  \/ Unplug
  \/ W_open_library_call
  \/ W_open_sensor_call
  \/ W_close_sensor_call
  \/ W_send_command_call
  \/ W_get_status_call
  \/ W_blink_led_call

SpecW == Init /\ [][NextW]_vars

NextEnum ==
  \/ enum_lookup
  \/ enum_check

SpecEnum == Init /\ [][NextEnum]_vars

\* Device enumeration while devices come and go.
NextD ==
  \/ Plug
  \/ Unplug
  \/ open_library
  \/ get_connected_products
  \/ get_device_by_index
  \/ get_devices_count
  \/ get_devices_next

SpecD == Init /\ [][NextD]_vars

\* The viewer plugin under a host that calls one callback at a time.
NextP ==
  \/ Plug
  \/ Unplug
  \/ Produce
  \/ HostCall
  \/ Send
  \/ ServeBegin
  \/ ServeEnd

SpecP == Init /\ [][NextP]_vars

\* The viewer plugin under a host that may overlap its callbacks; devices
\* stay connected and the production of measurements is left out.
NextB ==
  \/ Plug
  \/ HostCall
  \/ HostCallOverlap
  \/ Send
  \/ ServeBegin
  \/ ServeEnd

SpecB == Init /\ [][NextB]_vars

(***************************************************************************)
(* Properties.                                                             *)
(***************************************************************************)
Done == last.kind \in {"raise", "return"}

HandleOps32 ==
  {"close_sensor", "clear_sensor", "get_sensor_info",
   "send_command_get_response", "get_status", "get_led_status", "set_led",
   "start", "stop", "read_raw", "read_raw_latest",
   "get_n_available_measurements"}

\* C1: a wrapper operation called with a handle that names no open session
\* (never opened, or closed) raises an error or is a no-op: it hands no
\* result back as it does on a live session.
C1_HandleWindow ==
  (last.op \in HandleOps32 /\ Done /\ ~last.live)
    => (last.kind = "raise" \/ last.shape \in {"none", "code"})

\* C2: open_sensor raises whenever device_id is not the name of a device
\* currently enumerable under the given product and the Vernier vendor id.
C2_OpenFails ==
  (last.op = "open_sensor" /\ Done /\ ~last.avail) => last.kind = "raise"

SendOps == {"send_command_get_response", "W.send_command"}

CommandTable(op) == IF op = "W.send_command" THEN SensorCommandW ELSE SensorCommand32

\* C3: every send_command / send_command_get_response call with a valid
\* command issues the vendor exchange exactly once; a non-zero vendor code
\* raises GoIOError carrying the command's name and that code, and the call
\* returns only when the code is zero.
C3_ExchangeOnce ==
  (last.op \in SendOps /\ Done /\ last.exc \notin {"ValueError", "OSError"})
    => /\ Len(last.vcalls) = 1
       /\ last.vcalls[1].res # 0 =>
            /\ last.kind = "raise" /\ last.exc = "GoIOError"
            /\ last.cmd = ByValue(CommandTable(last.op), last.vcalls[1].cmd)
            /\ last.code = last.vcalls[1].res
       /\ last.vcalls[1].res = 0 => last.kind = "return"

ListedEntryPoints ==
  {"GoIO_Init", "GoIO_Uninit", "GoIO_GetDLLVersion", "GoIO_Sensor_Close",
   "GoIO_Sensor_ClearIO", "GoIO_Sensor_GetOpenDeviceName",
   "GoIO_Sensor_SendCmdAndGetResponse", "GoIO_Sensor_GetLastCmdResponseStatus",
   "GoIO_GetNthAvailableDeviceName"}

CheckedEntryPoints ==
  {"GoIO_Init", "GoIO_Uninit", "GoIO_GetDLLVersion",
   "GoIO_Sensor_GetOpenDeviceName", "GoIO_Sensor_SendCmdAndGetResponse",
   "GoIO_Sensor_GetLastCmdResponseStatus"}

\* C4 as stated: whenever one of the listed entry points returns non-zero,
\* the wrapper operation that called it raises GoIOError.
C4_AllRaise ==
  Done =>
    \A i \in 1..Len(last.vcalls) :
      (last.vcalls[i].fn \in ListedEntryPoints /\ last.vcalls[i].res # 0)
        => (last.kind = "raise" /\ last.exc = "GoIOError")

\* C4 amended: GoIOError is raised exactly when GoIO_Init, GoIO_Uninit,
\* GoIO_GetDLLVersion, GoIO_Sensor_GetOpenDeviceName,
\* GoIO_Sensor_SendCmdAndGetResponse or GoIO_Sensor_GetLastCmdResponseStatus
\* returns non-zero; close_sensor and clear_sensor never raise and return the
\* vendor's code; get_device_by_index does not look at the code of
\* GoIO_GetNthAvailableDeviceName and returns the empty string when it fails.
C4_ErrorKinds ==
  Done =>
    /\ \A i \in 1..Len(last.vcalls) :
         LET vc == last.vcalls[i]
         IN /\ (vc.fn \in CheckedEntryPoints /\ vc.res # 0)
                 => (last.kind = "raise" /\ last.exc = "GoIOError")
            /\ vc.fn \in {"GoIO_Sensor_Close", "GoIO_Sensor_ClearIO"}
                 => (last.kind = "return" /\ last.shape = "code"
                     /\ last.code = vc.res)
            /\ (vc.fn = "GoIO_GetNthAvailableDeviceName" /\ vc.res # 0)
                 => (last.kind = "return" /\ last.text = "")
    /\ last.exc = "GoIOError"
         => \E i \in 1..Len(last.vcalls) :
              last.vcalls[i].fn \in CheckedEntryPoints /\ last.vcalls[i].res # 0

C4_Witness ==
  /\ last.op = "close_sensor" /\ last.kind = "return" /\ last.code # 0
  /\ Len(last.vcalls) = 1

\* The byte size the vendor expects for each buffer.
ExpectedSize(buf) ==
  CASE buf = "NULL" -> 0
    [] buf = "LEDParam" -> 2
    [] buf = "DefaultResponse" -> 1

\* C5: in every command exchange the parameter length and the response
\* length passed to the vendor equal the byte size of the buffer passed:
\* 2 for an LEDParam, 1 for a DefaultResponse, 0 with a null buffer.
C5_BufferSizes ==
  \A i \in 1..Len(last.vcalls) :
    last.vcalls[i].fn = "GoIO_Sensor_SendCmdAndGetResponse"
      => /\ last.vcalls[i].plen = ExpectedSize(last.vcalls[i].pbuf)
         /\ last.vcalls[i].rlen = ExpectedSize(last.vcalls[i].rbuf)

ReadReturned == last.op = "read_raw" /\ last.kind = "return"

Increasing(q) == \A i, j \in 1..Len(q) : i < j => q[i] < q[j]

\* Every measurement a session has produced is in exactly one place: in the
\* lists read_raw returned (once, in order), still in the buffer, or dropped
\* by another operation.
NoSkipNoDup ==
  \A h \in Handles :
    sess[h].open =>
      /\ Increasing(hist[h].got)
      /\ SeqSet(hist[h].got) \cup hist[h].dropped \cup SeqSet(sess[h].queue)
           = 1..sess[h].produced
      /\ SeqSet(hist[h].got) \cap hist[h].dropped = {}
      /\ SeqSet(hist[h].got) \cap SeqSet(sess[h].queue) = {}
      /\ hist[h].dropped \cap SeqSet(sess[h].queue) = {}

C7_LatestState ==
  /\ (last.op = "read_raw_latest" /\ last.live) =>
       /\ last.qread # << >> => last.data = <<last.qread[Len(last.qread)]>>
       /\ \A x \in SeqSet(sess[last.h].queue) : x > last.mark
  /\ ReadReturned => Len(last.data) = last.vcalls[1].res

\* A read_raw that starts right after read_raw_latest on the same handle,
\* with no measurement produced in between, counts 0.
C7_LatestStep ==
  (/\ last.op = "read_raw_latest" /\ last.live
   /\ ~rr.active /\ rr'.active /\ rr'.h = last.h
   /\ sess[last.h].produced = last.mark)
    => rr'.max_count = 0

\* C7: read_raw_latest returns the most recent measurement stored in the
\* buffer and clears the buffer: a read_raw issued
\* right after it, with no new measurement produced, counts 0 and returns
\* an empty list.
C7_LatestClears == [](C7_LatestState) /\ [][C7_LatestStep]_vars

C7_Witness ==
  /\ last.op = "read_raw_latest" /\ last.live
  /\ Len(last.qread) >= 2
  /\ sess[last.h].queue = << >>

\* C8: the request sent to the 32-bit server names the method the caller
\* called and carries all of the caller's positional arguments in order.
C8_RelayUnchanged ==
  last.method # "" => (last.reqName = last.method /\ last.reqArgs = last.args)

\* A close_sensor that follows a successful close_sensor of the same handle
\* issues no vendor call and leaves the sessions as they are.
C9_DoubleCloseStep ==
  (/\ last.op = "close_sensor" /\ last.kind = "return" /\ last.code = 0
   /\ last'.op = "close_sensor" /\ last'.h = last.h /\ last' # last)
    => (last'.vcalls = << >> /\ sess' = sess)

\* C9: double close is a no-op: a close right after a successful close of
\* the same handle issues no further close to the vendor and changes nothing.
C9_DoubleClose == [][C9_DoubleCloseStep]_vars

\* C10: in each enum every name has a code no other name of that enum has,
\* looking the code up gives the member of that name back, and the two
\* modules give every name they both define the same code.
C10_RoundTrip ==
  last.op = "enum_lookup" =>
    /\ last.back = last.name
    /\ \A m \in NameSet(EnumTable(last.file, last.enum)) \ {last.name} :
         ValueOf(EnumTable(last.file, last.enum), m) # last.code
    /\ last.other # -1 => last.other = last.code

C10_Witness ==
  /\ last.op = "enum_lookup" /\ last.file = "server32"
  /\ last.enum = "LEDBrightness" /\ last.name = "BRIGHTNESS_MAX"
  /\ last.other = last.code

EnumArgs(op) ==
  CASE op \in {"get_connected_products", "get_device_by_index"}
         -> {<<1, "ProductID">>}
    [] op = "open_sensor" -> {<<2, "ProductID">>}
    [] op = "send_command_get_response" -> {<<2, "SensorCommand">>}
    [] op = "set_led" -> {<<2, "LEDColor">>, <<3, "LEDBrightness">>}
    [] OTHER -> {}

\* item names a member of the enum: it is one, or it is a string equal to a
\* member's name up to case.
ValidItem(enum, item) ==
  \/ item.k = "member" /\ item.enum = enum
  \/ item.k = "str" /\ \E n \in NameSet(EnumTable("server32", enum)) :
                          Lower(n) = Lower(item.s)

MemberNamed(enum, item) ==
  IF item.k = "member" THEN item.s
  ELSE CHOOSE n \in NameSet(EnumTable("server32", enum)) : Lower(n) = Lower(item.s)

\* C14: an operation taking a product, command, colour or brightness raises
\* ValueError before any vendor call when one of them is neither a member
\* of its enum nor a string that names a member up to case; otherwise it
\* raises no ValueError and works with the member so named (a member is
\* taken as it is).
C14_EnumChecked ==
  (Done /\ EnumArgs(last.op) # {}) =>
    IF \A a \in EnumArgs(last.op) : ValidItem(a[2], last.args[a[1]])
    THEN /\ last.exc # "ValueError"
         /\ last.vcalls # << >>
         /\ last.op = "open_sensor" =>
              last.info.product = MemberNamed("ProductID", last.args[2])
         /\ last.op = "send_command_get_response" =>
              /\ last.cmd = MemberNamed("SensorCommand", last.args[2])
              /\ last.vcalls[1].cmd = ValueOf(SensorCommand32, last.cmd)
    ELSE /\ last.kind = "raise" /\ last.exc = "ValueError"
         /\ last.vcalls = << >>

C14_Witness ==
  /\ last.op = "send_command_get_response" /\ last.kind = "return"
  /\ last.args[2] = Str("stop_measurements")
  /\ last.cmd = "STOP_MEASUREMENTS"

\* No vendor call of the last operation reported a failure.
VendorWell ==
  \A i \in 1..Len(last.vcalls) :
    last.vcalls[i].fn = "GoIO_GetNthAvailableDeviceName" => last.vcalls[i].res = 0

\* C15: as long as the vendor's name queries succeed, get_devices returns
\* one name per device connected for the product at its return (last.qread
\* is the vendor's list at that moment), entry i being the non-empty name of
\* the i-th device, also when devices come and go between its enumerations;
\* get_device_by_index returns the empty string exactly when the index is
\* not below the number of connected devices.
C15_DevicesListed ==
  /\ (last.op = "get_devices" /\ last.kind = "return" /\ VendorWell)
       => /\ last.data = last.qread
          /\ \A i \in 1..Len(last.data) : last.data[i] # ""
  /\ (last.op = "get_device_by_index" /\ last.kind = "return" /\ VendorWell)
       => (last.text = "" <=> last.args[2] >= Len(last.qread))

\* C13: when ini_detector has ended and its library initialisation or its
\* opening of the selected device failed, the result it gave the host is
\* initialized = False; it reports initialized = True only after the sensor
\* was opened.
C13_InitReported ==
  pl.log.cb = "ini_detector" =>
    /\ pl.log.failed => (pl.log.kind = "return" /\ ~pl.log.initialized)
    /\ (pl.log.kind = "return" /\ pl.log.initialized) => ~pl.log.failed

\* A thread is blocked in the controller call m.
InCall(t, m) == pl.th[t].wait /\ Head(pl.th[t].script) = m

\* C16: whenever grab_data calls controller.get_last_measurement(), a
\* controller.start() has been issued before it with no controller.stop()
\* since, the first grab_data after an initialisation that opened the
\* sensor included.
C16_StartedBeforeRead ==
  \A t \in DOMAIN pl.th :
    (InCall(t, "get_last_measurement") /\ V_Valid(sess, pl.handle)) => pl.since

\* The number of calls of controller method m in the sequence calls.
Count(calls, m) == Cardinality({i \in 1..Len(calls) : calls[i] = m})

\* C17 as stated: stop() leaves _running False and has issued
\* controller.stop(); the first grab_data after a stop() issues
\* controller.start() exactly once, before it reads; the grab_data calls
\* after it, until the next stop(), issue no start; every grab_data emits
\* exactly one export, holding one value.
C17_Stated ==
  /\ pl.log.cb = "stop" => (~pl.log.running /\ pl.log.calls = <<"stop">>)
  /\ pl.log.cb = "grab_data" =>
       /\ pl.log.nth = 1 => (Count(pl.log.calls, "start") = 1
                              /\ pl.log.calls[1] = "start")
       /\ pl.log.nth = 2 => Count(pl.log.calls, "start") = 0
       /\ Len(pl.log.emitted) = 1
       /\ Len(pl.log.emitted[1]) = 1

\* C17: stop() leaves _running False and has issued controller.stop(); the
\* first grab_data after a stop() issues controller.start() exactly once,
\* before it reads; once a grab_data has returned since that stop(), the
\* grab_data calls until the next stop() issue no start; a grab_data that
\* returns has emitted exactly one export, holding one value, and one that
\* raises has emitted none.
C17_StartOncePerStop ==
  /\ pl.log.cb = "stop" => (~pl.log.running /\ pl.log.calls = <<"stop">>)
  /\ pl.log.cb = "grab_data" =>
       /\ pl.log.nth = 1 => (Count(pl.log.calls, "start") = 1
                              /\ pl.log.calls[1] = "start")
       /\ pl.log.good => Count(pl.log.calls, "start") = 0
       /\ pl.log.kind = "return" =>
            (Len(pl.log.emitted) = 1 /\ Len(pl.log.emitted[1]) = 1)
       /\ pl.log.kind = "raise" => pl.log.emitted = << >>

C17_Witness ==
  /\ pl.log.cb = "grab_data" /\ pl.log.kind = "return"
  /\ pl.log.nth = 2 /\ pl.log.good
  /\ pl.log.calls = <<"get_last_measurement">>
  /\ pl.log.emitted = <<<<2>>>>

\* C18: when controller.start() raises in grab_data the error reaches the
\* host, no data is emitted and _running stays False; when
\* controller.stop() raises in stop() the error reaches the host and
\* _running is False only if the sensor has stopped measuring.
C18_FlagAfterError ==
  /\ (pl.log.cb = "grab_data" /\ pl.log.failed) =>
       /\ pl.log.kind = "raise"
       /\ pl.log.emitted = << >>
       /\ ~pl.log.running
  /\ (pl.log.cb = "stop" /\ pl.log.failed) =>
       /\ pl.log.kind = "raise"
       /\ ~pl.log.running => ~pl.log.measuring

====
